---------------------------- MODULE Spec2Model ----------------------------
(* A model of the api.video -> S3 transfer script (src/unnamed/part_000,   *)
(* with the earlier streaming variant src/transfer.js).                     *)
(*                                                                          *)
(* JavaScript strings are sequences of UTF-16 code units; a code unit is    *)
(* written as a one-character TLA+ string, so "vid" is <<"v","i","d">>.     *)
EXTENDS Integers, Sequences, FiniteSets, TLC

VARIABLES
  catalog,          \* the remote catalog: the records GET /videos lists, in order
  hasSource,        \* the videoIds of the videos that have an mp4 asset
  store,            \* the keys of the objects in the bucket
  ledger,           \* the content of failed-videos.json (FAILED_LOG_FILE)
  mode,             \* main: the branch the flags of the run select, from
                    \* verifyMode, retryMode and retryFailed
  pc,               \* where the current run is
  exitCode,         \* the exit code of the current run (0 until process.exit(1))
  runs,             \* the number of runs started; the run's clock (timestamps)
  allVideos,        \* fetchAllVideos: allVideos
  currentPage,      \* fetchAllVideos: currentPage
  videosToProcess,  \* transferVideos: its argument
  i,                \* transferVideos: the loop index (1-based here)
  failedVideos,     \* transferVideos: failedVideos
  s3Key,            \* transferVideos: s3Key of the current item
  retries,          \* streamToS3WithRetry: retries
  missingVideos,    \* verifyTransfer: its return value
  inflight,         \* streamToS3: the uploads this process started that the
                    \* store client has neither finished nor given up
  call,             \* streamToS3: the status code the source answered the last
                    \* call with (0: it did not answer) and whether the call
                    \* went on to s3.upload
  requests,         \* history: the pages fetchVideoPage was called with, in order
  badPage,          \* history: a page response of this run carried no data array
  events,           \* history: the head request, the streamToS3 calls and the
                    \* delays of the item the loop is at or has just finished
  log,              \* history: the terminal outcome of every item of this run
  prev,             \* history of the previous run: whether it was a normal
                    \* run that completed, and the videoIds it uploaded or
                    \* found in the store; and how far the runs up to it got
                    \* in the sequence verify, retry (see Chain)
  ledgerAtStart,    \* history: the ledger as it was when the run started
  km                \* the key mapper's inputs and results (specification SpecKey)

runVars == <<mode, pc, exitCode, runs, allVideos, currentPage, videosToProcess,
             i, failedVideos, s3Key, retries, missingVideos, inflight, call>>
histVars == <<requests, badPage, events, log, prev, ledgerAtStart>>
envVars == <<catalog, hasSource, store, ledger>>
vars == <<envVars, runVars, histVars, km>>

---------------------------------------------------------------------------
(* Bounds of the model.                                                     *)

\* the longest title SpecKey draws from KeyAlphabet
MaxTitleLen == 3
\* the most records a catalog of Spec holds
MaxVideos == 2
\* the most runs of the script a behaviour of Spec holds
MaxRuns == 3
\* the largest catalog SpecList pages through
MaxListing == 237

---------------------------------------------------------------------------
(* JavaScript values.                                                       *)

\* a value that is undefined, null or a string (a title, a source URL)
Undefined == [k |-> "undefined", s |-> <<>>]
Null == [k |-> "null", s |-> <<>>]
Str(s) == [k |-> "string", s |-> s]

\* ToBoolean: undefined, null and "" are falsy
Truthy(v) == v.k = "string" /\ v.s # <<>>

---------------------------------------------------------------------------
(* The key mapper: sanitizeFilename and the s3Key template.                 *)

Letters ==
  {"a","b","c","d","e","f","g","h","i","j","k","l","m",
   "n","o","p","q","r","s","t","u","v","w","x","y","z",
   "A","B","C","D","E","F","G","H","I","J","K","L","M",
   "N","O","P","Q","R","S","T","U","V","W","X","Y","Z"}
Digits == {"0","1","2","3","4","5","6","7","8","9"}
\* \s of a JavaScript regular expression (and what trim() strips), as far as
\* the model's alphabet goes: space, tab, line feed
Whitespace == {" ", "\t", "\n"}
\* [a-zA-Z0-9\-\s.]
AllowedChars == Letters \cup Digits \cup {"-", "."} \cup Whitespace

\* a character class that leaves the digits out: /[^a-zA-Z\-\s.]/g
RemoveSpecialNoDigits(s) == SelectSeq(s, LAMBDA c : c \in AllowedChars \ Digits)

\* .replace(/[^a-zA-Z0-9\-\s.]/g, '')
RemoveSpecial(s) == SelectSeq(s, LAMBDA c : c \in AllowedChars)

RECURSIVE CollapseFrom(_, _)
CollapseFrom(s, k) ==
  IF k > Len(s) THEN <<>>
  ELSE IF s[k] \in Whitespace
       THEN IF k > 1 /\ s[k - 1] \in Whitespace
            THEN CollapseFrom(s, k + 1)
            ELSE <<" ">> \o CollapseFrom(s, k + 1)
       ELSE <<s[k]>> \o CollapseFrom(s, k + 1)

\* .replace(/\s+/g, ' ')
CollapseSpaces(s) == CollapseFrom(s, 1)

RECURSIVE TrimStart(_)
TrimStart(s) ==
  IF s # <<>> /\ Head(s) \in Whitespace THEN TrimStart(Tail(s)) ELSE s

RECURSIVE TrimEnd(_)
TrimEnd(s) ==
  IF s # <<>> /\ s[Len(s)] \in Whitespace
  THEN TrimEnd(SubSeq(s, 1, Len(s) - 1)) ELSE s

\* String.prototype.trim
Trim(s) == TrimEnd(TrimStart(s))

\* 'api-video-backup/'
KeyPrefix ==
  <<"a","p","i","-","v","i","d","e","o","-","b","a","c","k","u","p","/">>
\* ' - '
KeySeparator == <<" ", "-", " ">>

\* the closure without its fallback `|| video.videoId`
sanitizeFilenameNoFallback(title, video) ==
  Trim(CollapseSpaces(RemoveSpecial(title)))

\* transferVideos: the sanitizeFilename closure of one loop iteration
sanitizeFilename(title, video) ==
  LET r == Trim(CollapseSpaces(RemoveSpecial(title)))
  IN  IF r # <<>> THEN r ELSE video.videoId

\* transferVideos: safeTitle and s3Key
TransferKey(video) ==
  LET safeTitle == sanitizeFilename(
        IF Truthy(video.title) THEN video.title.s ELSE video.videoId, video)
  IN  KeyPrefix \o safeTitle \o KeySeparator \o video.videoId

\* the closure without its trim()
sanitizeFilenameVerifyNoTrim(title, video) ==
  LET r == CollapseSpaces(RemoveSpecial(title))
  IN  IF r # <<>> THEN r ELSE video.videoId

\* verifyTransfer: the sanitizeFilename closure of one loop iteration
sanitizeFilenameVerify(title, video) ==
  LET r == Trim(CollapseSpaces(RemoveSpecial(title)))
  IN  IF r # <<>> THEN r ELSE video.videoId

\* verifyTransfer: safeTitle and expectedKey
ExpectedKey(video) ==
  LET safeTitle == sanitizeFilenameVerify(
        IF Truthy(video.title) THEN video.title.s ELSE video.videoId, video)
  IN  KeyPrefix \o safeTitle \o KeySeparator \o video.videoId

\* src/transfer.js, transferVideos: the sanitizeFilename closure
sanitizeFilenameStream(title, video) ==
  LET r == Trim(CollapseSpaces(RemoveSpecial(title)))
  IN  IF r # <<>> THEN r ELSE video.videoId

\* src/transfer.js, transferVideos: safeTitle and s3Key
StreamKey(video) ==
  LET safeTitle == sanitizeFilenameStream(
        IF Truthy(video.title) THEN video.title.s ELSE video.videoId, video)
  IN  KeyPrefix \o safeTitle \o KeySeparator \o video.videoId

---------------------------------------------------------------------------
(* The failure ledger: failed-videos.json.                                  *)

\* the text of a file: JSON that does not parse, JSON that is no array, or
\* the JSON array of the objects `items`
InvalidJson == [j |-> "invalid", items |-> <<>>]
NonArrayJson == [j |-> "value", items |-> <<>>]
ArrayJson(items) == [j |-> "array", items |-> items]

\* the file system's view of FAILED_LOG_FILE
NoFile == [exists |-> FALSE, text |-> InvalidJson]
File(text) == [exists |-> TRUE, text |-> text]

\* an undefined title written as null
StringifyEntryNullTitle(e) ==
  [videoId |-> e.videoId,
   title |-> IF e.title.k = "undefined" THEN Null ELSE e.title,
   error |-> e.error, timestamp |-> e.timestamp]

\* JSON.stringify of one ledger entry: a property whose value is undefined
\* is left out of the object
StringifyEntry(e) ==
  IF e.title.k = "undefined"
  THEN [videoId |-> e.videoId, error |-> e.error, timestamp |-> e.timestamp]
  ELSE [videoId |-> e.videoId, title |-> e.title, error |-> e.error,
        timestamp |-> e.timestamp]

\* JSON.stringify(failedVideos, null, 2)
JSONstringify(entries) ==
  ArrayJson([n \in 1..Len(entries) |-> StringifyEntry(entries[n])])

\* reading property `title` of a parsed object: undefined when it has none
ParseEntry(o) ==
  [videoId |-> o.videoId,
   title |-> IF "title" \in DOMAIN o THEN o.title ELSE Undefined,
   error |-> o.error, timestamp |-> o.timestamp]

\* JSON.parse of a text that parses to an array
JSONparse(text) == [n \in 1..Len(text.items) |-> ParseEntry(text.items[n])]

\* loadFailedVideos: [array |-> whether the value returned is an array,
\*                    v |-> its elements]
loadFailedVideos(file) ==
  IF file.exists
  THEN IF file.text.j = "invalid" THEN [array |-> TRUE, v |-> <<>>]
       ELSE IF file.text.j = "array"
            THEN [array |-> TRUE, v |-> JSONparse(file.text)]
            ELSE [array |-> FALSE, v |-> <<>>]
  ELSE [array |-> TRUE, v |-> <<>>]

\* the entries appended to the array the file holds (fs.appendFileSync in
\* effect) instead of replacing it
saveFailedVideosAppend(entries) ==
  File(ArrayJson((IF ledger.exists /\ ledger.text.j = "array"
                  THEN ledger.text.items ELSE <<>>)
                 \o JSONstringify(entries).items))

\* saveFailedVideos: the file after fs.writeFileSync
saveFailedVideos(entries) == File(JSONstringify(entries))

\* clearFailedLog: the file after it
clearFailedLog(file) == IF file.exists THEN NoFile ELSE file

\* the failures saved behind the entries the file holds
PersistFailuresMerge(failed, file) ==
  IF Len(failed) = 0 THEN clearFailedLog(file)
  ELSE saveFailedVideos(loadFailedVideos(file).v \o failed)

\* main: the end of a run of transferVideos that returned `failed`
PersistFailures(failed, file) ==
  IF Len(failed) = 0 THEN clearFailedLog(file) ELSE saveFailedVideos(failed)

\* the entries mapped in reverse order
VideosToRetryReversed(entries) ==
  [n \in 1..Len(entries) |->
     [videoId |-> entries[Len(entries) + 1 - n].videoId,
      title |-> entries[Len(entries) + 1 - n].title]]

\* main: videosToRetry
VideosToRetry(entries) ==
  [n \in 1..Len(entries) |->
     [videoId |-> entries[n].videoId, title |-> entries[n].title]]

---------------------------------------------------------------------------
(* The store and the catalog service.                                       *)

MAX_RETRIES == 3
RETRY_DELAY == 5000
\* pageSize=100 of the listing URL, and the 100 fetchAllVideos compares with
PAGE_SIZE == 100

Min(a, b) == IF a < b THEN a ELSE b

\* GET /videos?currentPage=page&pageSize=100: the records of that page
CatalogPage(page) ==
  SubSeq(catalog, (page - 1) * PAGE_SIZE + 1, Min(page * PAGE_SIZE, Len(catalog)))

HasPrefix(key, prefix) ==
  Len(key) >= Len(prefix) /\ SubSeq(key, 1, Len(prefix)) = prefix

\* listS3Objects(prefix), as a set of keys: every page of the listing, which
\* together hold the keys of the bucket that start with the prefix
listS3Objects(prefix) == {k \in store : HasPrefix(k, prefix)}

\* the test for the retry flags made before the test for --verify
ModeRetryFirst(a) ==
  IF "--retry" \in a \/ "--retry-failed" \in a THEN "retry"
  ELSE IF "--verify" \in a THEN "verify"
  ELSE "normal"

\* main: the flags of the command line
Flags == {"--retry", "--retry-failed", "--verify"}
Mode(a) ==
  IF "--verify" \in a THEN "verify"
  ELSE IF "--retry" \in a \/ "--retry-failed" \in a THEN "retry"
  ELSE "normal"

---------------------------------------------------------------------------
(* The runs of the script: main, fetchAllVideos, transferVideos,            *)
(* streamToS3WithRetry, verifyTransfer.                                     *)

\* one event of the history of an item: a head request and its answer, a call
\* of streamToS3, or a delay and its length
Ev(e, r, ms) == [e |-> e, r |-> r, ms |-> ms]

\* no call of streamToS3 has been made for the item, or the last one is over
\* and the next has not begun
NoCall == [status |-> 0, put |-> FALSE]

\* an entry pushed without the title of the item
FailedEntryNoTitle(video, error) ==
  [videoId |-> video.videoId, title |-> Undefined, error |-> error,
   timestamp |-> runs]

\* an entry of failedVideos: of the error's message the model keeps the step
\* that failed ("detail", "upload"), and new Date() is the run's clock
FailedEntry(video, error) ==
  [videoId |-> video.videoId, title |-> video.title, error |-> error,
   timestamp |-> runs]

\* main up to its first await. Retry mode reads the ledger here; a ledger
\* that holds JSON which is no array makes main throw a TypeError, which its
\* catch turns into process.exit(1).
StartRun(a) ==
  /\ pc = "idle"
  /\ runs < MaxRuns
  /\ mode' = Mode(a)
  /\ runs' = runs + 1
  /\ exitCode' = IF Mode(a) = "retry" /\ ~loadFailedVideos(ledger).array
                 THEN 1 ELSE 0
  /\ videosToProcess' = IF Mode(a) = "retry"
                        THEN VideosToRetry(loadFailedVideos(ledger).v)
                        ELSE <<>>
  /\ pc' = IF Mode(a) = "retry"
           THEN IF ~loadFailedVideos(ledger).array THEN "aborted"
                ELSE IF Len(loadFailedVideos(ledger).v) = 0 THEN "done"
                ELSE "detail"
           ELSE "list"
  /\ ledgerAtStart' = ledger
  /\ UNCHANGED <<envVars, allVideos, currentPage, i, failedVideos, s3Key,
                 retries, missingVideos, inflight, call, requests, badPage,
                 events, log, prev, km>>

\* the ids of the items of a run that ended as uploaded or as already there
OkIds(videos, outcomes) ==
  {videos[n].videoId : n \in {m \in 1..Len(outcomes) :
                                outcomes[m] \in {"success", "exists"}}}

\* where the run that ends stands in the sequence verify, retry: 1 for a
\* verify run that listed the whole catalog and wrote a ledger, 2 for a retry
\* run that follows such a run, processed its ledger and ended with no
\* failure, 0 otherwise
Chain ==
  IF mode = "verify" /\ pc = "done" /\ ~badPage /\ missingVideos # <<>> THEN 1
  ELSE IF /\ mode = "retry" /\ pc = "done" /\ prev.chain = 1
          /\ videosToProcess # <<>> /\ failedVideos = <<>>
       THEN 2
       ELSE 0

\* the process ends: its memory is gone, the store and the ledger stay
Exit ==
  /\ pc \in {"done", "aborted"}
  /\ pc' = "idle"
  /\ mode' = "none"
  /\ exitCode' = 0
  /\ allVideos' = <<>>
  /\ currentPage' = 1
  /\ videosToProcess' = <<>>
  /\ i' = 1
  /\ failedVideos' = <<>>
  /\ s3Key' = <<>>
  /\ retries' = 0
  /\ missingVideos' = <<>>
  /\ inflight' = 0
  /\ call' = NoCall
  /\ requests' = <<>>
  /\ badPage' = FALSE
  /\ events' = <<>>
  /\ log' = <<>>
  /\ prev' = IF mode = "normal" /\ pc = "done"
             THEN [normal |-> TRUE, ok |-> OkIds(videosToProcess, log),
                   chain |-> Chain]
             ELSE [normal |-> FALSE, ok |-> {}, chain |-> Chain]
  /\ ledgerAtStart' = NoFile
  /\ UNCHANGED <<envVars, runs, km>>

\* transferVideos is entered with `videos`: its loop starts, or, with nothing
\* to process, it returns [] and main clears the ledger
BeginTransfer(videos) ==
  /\ videosToProcess' = videos
  /\ i' = 1
  /\ IF Len(videos) = 0
     THEN pc' = "done" /\ ledger' = PersistFailures(<<>>, ledger)
     ELSE pc' = "detail" /\ ledger' = ledger

\* fetchAllVideos returned `videos`
ListDone(videos) ==
  IF mode = "verify"
  THEN /\ pc' = "liststore"
       /\ UNCHANGED <<videosToProcess, i, ledger>>
  ELSE BeginTransfer(videos)

\* the loop going on after every page that holds records
HasMorePagesUntilEmpty(pageData) == Len(pageData) > 0

\* fetchAllVideos: hasMorePages after a page that holds records
HasMorePages(pageData) == Len(pageData) = PAGE_SIZE

\* one turn of the loop of fetchAllVideos: fetchVideoPage(currentPage)
\* answers with a page, with JSON that has no data array, or rejects
FetchPage(r) ==
  /\ pc = "list"
  /\ requests' = Append(requests, currentPage)
  /\ \/ /\ r \in {"curl", "parse"}
        /\ pc' = "aborted"
        /\ exitCode' = 1
        /\ UNCHANGED <<allVideos, currentPage, badPage, videosToProcess, i, ledger>>
     \/ /\ r = "nodata"
        /\ badPage' = TRUE
        /\ ListDone(allVideos)
        /\ UNCHANGED <<allVideos, currentPage, exitCode>>
     \/ /\ r = "ok"
        /\ LET pageData == CatalogPage(currentPage)
           IN  IF Len(pageData) > 0
               THEN /\ allVideos' = allVideos \o pageData
                    /\ currentPage' = currentPage + 1
                    /\ IF HasMorePages(pageData)
                       THEN UNCHANGED <<pc, videosToProcess, i, ledger>>
                       ELSE ListDone(allVideos \o pageData)
               ELSE /\ ListDone(allVideos)
                    /\ UNCHANGED <<allVideos, currentPage>>
        /\ UNCHANGED <<badPage, exitCode>>
  /\ UNCHANGED <<catalog, hasSource, store, mode, runs, failedVideos, s3Key,
                 retries, missingVideos, inflight, call, events, log, prev,
                 ledgerAtStart, km>>

\* a failed item ending the loop: its error leaving transferVideos
FinishItemAbortOnFailure(outcome, failed) ==
  /\ failedVideos' = failed
  /\ log' = Append(log, outcome)
  /\ IF i < Len(videosToProcess) /\ outcome \notin {"failed_detail", "failed_upload"}
     THEN /\ i' = i + 1
          /\ pc' = "detail"
          /\ ledger' = ledger
     ELSE /\ i' = i
          /\ pc' = "done"
          /\ ledger' = PersistFailures(failed, ledger)

\* the current item reached its outcome: the loop goes on with the next item
\* or, after the last one, transferVideos returns and main clears or saves
\* the ledger
FinishItem(outcome, failed) ==
  /\ failedVideos' = failed
  /\ log' = Append(log, outcome)
  /\ IF i < Len(videosToProcess)
     THEN /\ i' = i + 1
          /\ pc' = "detail"
          /\ ledger' = ledger
     ELSE /\ i' = i
          /\ pc' = "done"
          /\ ledger' = PersistFailures(failed, ledger)

\* fetchVideoDetails of the current item, then the key derivation. The fetch
\* rejects ("error"), or resolves with a record that carries assets.mp4
\* ("url", for a video that has an mp4 asset) or with JSON that carries none
\* ("nourl": a video without mp4 asset, or the body of an error answer, which
\* curl -s hands over with exit code 0)
Detail(r) ==
  /\ pc = "detail"
  /\ call' = NoCall
  /\ LET video == videosToProcess[i]
     IN  \/ /\ r = "error"
            /\ events' = <<>>
            /\ FinishItem("failed_detail",
                          Append(failedVideos, FailedEntry(video, "detail")))
            /\ s3Key' = s3Key
         \/ /\ r = "nourl"
            /\ events' = <<>>
            /\ FinishItem("nosource", failedVideos)
            /\ s3Key' = s3Key
         \/ /\ r = "url"
            /\ video.videoId \in hasSource
            /\ s3Key' = TransferKey(video)
            /\ pc' = "head"
            /\ events' = <<>>
            /\ UNCHANGED <<failedVideos, log, i, ledger>>
  /\ UNCHANGED <<catalog, hasSource, store, mode, exitCode, runs, allVideos,
                 currentPage, videosToProcess, retries, missingVideos,
                 inflight, requests, badPage, prev, ledgerAtStart, km>>

\* the branch for another error resolving true
checkFileExistsUnlessNotFound(r) == r # "notfound"

\* every branch of the callback resolving false
checkFileExistsNever(r) == FALSE

\* checkFileExists(s3Key): the answer of headObject; every error resolves false
checkFileExists(r) == r = "found"

HeadObject(r) ==
  /\ pc = "head"
  /\ r \in {"found", "notfound", "error"}
  /\ r = "found" => s3Key \in store
  /\ r = "notfound" => s3Key \notin store
  /\ events' = Append(events, Ev("head", r, 0))
  /\ IF checkFileExists(r)
     THEN FinishItem("exists", failedVideos)
     ELSE /\ pc' = "stream"
          /\ UNCHANGED <<failedVideos, log, i, ledger>>
  /\ retries' = 0
  /\ UNCHANGED <<catalog, hasSource, store, mode, exitCode, runs, allVideos,
                 currentPage, videosToProcess, s3Key, missingVideos,
                 inflight, call, requests, badPage, prev, ledgerAtStart, km>>

\* the test written as retries <= MAX_RETRIES
RetryAgainInclusive(n) == n <= MAX_RETRIES

\* streamToS3WithRetry: whether a failed attempt is followed by another
RetryAgain(n) == n < MAX_RETRIES

\* the status code of the source's response for an answer of streamToS3: none
\* (0) when the request fails before it is answered, 404 for the answer
\* "status", 200 for every other
StatusCode(r) ==
  CASE r = "reqerr" -> 0
    [] r = "status" -> 404
    [] OTHER -> 200

\* the response callback without its status test
UploadStartsAlways(statusCode) == TRUE

\* streamToS3: the response callback goes on to s3.upload
UploadStarts(statusCode) == statusCode = 200

\* the answers of one call of streamToS3 that differ in what main sees of it
StreamAnswers == {"ok", "status", "reqerr", "s3err"}

\* and those that differ in what the call leaves behind: the request emits
\* 'error' after s3.upload was called with the response as Body, which
\* rejects the promise at once; the store client gives the upload up when the
\* response emits 'error' too ("reset_abandoned"), and keeps it when the
\* response only emits 'aborted' and 'close' ("reset_left"), which is up to
\* the version of node
StreamResets == {"reset_abandoned", "reset_left"}

\* one call of streamToS3 by streamToS3WithRetry: the source answers 200 and
\* the upload commits ("ok"), the source answers another status ("status"),
\* the request fails before it is answered ("reqerr"), the upload fails
\* ("s3err"), or the request fails after the upload has started; `recorded`
\* says whether the step keeps the call's status code and its going on to
\* s3.upload in `call`, which no step reads
StreamCall(r, recorded) ==
  /\ pc = "stream"
  /\ r \in StreamAnswers \cup StreamResets
  /\ events' = Append(events, Ev("call", "", 0))
  /\ LET \* the response callback ran and went past its status test
         put == r # "reqerr" /\ UploadStarts(StatusCode(r))
         \* the upload, if there is one, gets the whole body and commits it
         committed == put /\ r \in {"ok", "status"}
     IN  /\ call' = IF recorded THEN [status |-> StatusCode(r), put |-> put]
                  ELSE call
         /\ inflight' = IF put /\ r = "reset_left" THEN inflight + 1 ELSE inflight
         /\ IF committed
            THEN /\ store' = store \cup {s3Key}
                 /\ FinishItem("success", failedVideos)
            ELSE /\ store' = store
                 /\ IF RetryAgain(retries)
                    THEN /\ pc' = "delay"
                         /\ UNCHANGED <<failedVideos, log, i, ledger>>
                    ELSE FinishItem("failed_upload",
                           Append(failedVideos,
                                  FailedEntry(videosToProcess[i], "upload")))
  /\ UNCHANGED <<catalog, hasSource, mode, exitCode, runs, allVideos,
                 currentPage, videosToProcess, s3Key, retries, missingVideos,
                 requests, badPage, prev, ledgerAtStart, km>>

\* the call as main sees it
Stream(r) == StreamCall(r, FALSE)

\* the call with its status code and its upload on record
StreamRecorded(r) == StreamCall(r, TRUE)

\* await delay(RETRY_DELAY), then the recursive call with retries + 1
Delay ==
  /\ pc = "delay"
  /\ events' = Append(events, Ev("wait", "", RETRY_DELAY))
  /\ retries' = retries + 1
  /\ pc' = "stream"
  /\ call' = NoCall
  /\ UNCHANGED <<envVars, mode, exitCode, runs, allVideos, currentPage,
                 videosToProcess, i, failedVideos, s3Key, missingVideos,
                 inflight, requests, badPage, log, prev, ledgerAtStart, km>>

\* verifyTransfer: the catalog records whose expected key the store lacks
RECURSIVE MissingFrom(_, _)
MissingFrom(videos, s3Keys) ==
  IF videos = <<>> THEN <<>>
  ELSE LET video == Head(videos)
           rest == MissingFrom(Tail(videos), s3Keys)
       IN  IF ExpectedKey(video) \notin s3Keys
           THEN <<[videoId |-> video.videoId, title |-> video.title,
                   expectedKey |-> ExpectedKey(video)]>> \o rest
           ELSE rest

\* verifyTransfer: missingForRetry
MissingForRetry(missing) ==
  [n \in 1..Len(missing) |->
     [videoId |-> missing[n].videoId, title |-> missing[n].title,
      error |-> "Missing from S3 after verification", timestamp |-> runs]]

\* the missing records added to the entries the ledger holds
VerifyLedgerAppend(missing, file) ==
  IF Len(missing) > 0
  THEN File(ArrayJson((IF file.exists /\ file.text.j = "array"
                       THEN file.text.items ELSE <<>>)
                      \o JSONstringify(MissingForRetry(missing)).items))
  ELSE clearFailedLog(file)

\* the branch for nothing missing leaving the ledger as it is
VerifyLedgerNoClear(missing, file) ==
  IF Len(missing) > 0
  THEN File(JSONstringify(MissingForRetry(missing)))
  ELSE file

\* verifyTransfer: the ledger after the report
VerifyLedger(missing, file) ==
  IF Len(missing) > 0
  THEN File(JSONstringify(MissingForRetry(missing)))
  ELSE clearFailedLog(file)

\* verifyTransfer after fetchAllVideos: listS3Objects, the comparison, the
\* report and the ledger; a listing error rejects and main exits with 1
VerifyStore(r) ==
  /\ pc = "liststore"
  /\ \/ /\ r = "error"
        /\ pc' = "aborted"
        /\ exitCode' = 1
        /\ UNCHANGED <<missingVideos, ledger>>
     \/ /\ r = "ok"
        /\ LET missing == MissingFrom(allVideos, listS3Objects(KeyPrefix))
           IN  /\ missingVideos' = missing
               /\ ledger' = VerifyLedger(missing, ledger)
        /\ pc' = "done"
        /\ exitCode' = exitCode
  /\ UNCHANGED <<catalog, hasSource, store, mode, runs, allVideos, currentPage,
                 videosToProcess, i, failedVideos, s3Key, retries, inflight,
                 call, histVars, km>>

---------------------------------------------------------------------------
(* The specification of the runs.                                           *)

\* the records the catalogs of Spec are made of
Pool ==
  << [videoId |-> <<"a">>, title |-> Str(<<"x", " ", "#">>)],
     [videoId |-> <<"b">>, title |-> Undefined],
     [videoId |-> <<"c">>, title |-> Str(<<"#">>)] >>

\* the catalogs of Spec: the first n records of Pool
Range(f) == {f[x] : x \in DOMAIN f}

Catalogs == {SubSeq(Pool, 1, n) : n \in 0..MaxVideos}

\* no run is on: the memory of a process that has not started
Idle ==
  /\ mode = "none"
  /\ pc = "idle"
  /\ exitCode = 0
  /\ runs = 0
  /\ allVideos = <<>>
  /\ currentPage = 1
  /\ videosToProcess = <<>>
  /\ i = 1
  /\ failedVideos = <<>>
  /\ s3Key = <<>>
  /\ retries = 0
  /\ missingVideos = <<>>
  /\ inflight = 0
  /\ call = NoCall
  /\ requests = <<>>
  /\ badPage = FALSE
  /\ events = <<>>
  /\ log = <<>>
  /\ prev = [normal |-> FALSE, ok |-> {}, chain |-> 0]
  /\ ledgerAtStart = NoFile

NoKey == [video |-> [videoId |-> <<>>, title |-> Undefined],
          transfer |-> <<>>, verify |-> <<>>, stream |-> <<>>, retry |-> <<>>]

\* the videos with an mp4 asset: every video of the catalog, or every one
\* but the first (a detail answer without assets.mp4 can come for any video,
\* see Detail; a video outside hasSource never gets another answer)
Sources(videos) ==
  LET ids == {v.videoId : v \in Range(videos)}
  IN  {ids, ids \ {Pool[1].videoId}}

Init ==
  /\ catalog \in Catalogs
  /\ hasSource \in Sources(catalog)
  /\ store \in SUBSET {TransferKey(v) : v \in Range(catalog)}
  /\ ledger \in {NoFile, File(InvalidJson), File(NonArrayJson)}
  /\ Idle
  /\ km = NoKey

\* Spec follows the runs as main sees them: to main a reset is one more
\* rejected attempt, like "s3err"; what a reset leaves in flight, and what
\* goes on inside a call of streamToS3, is followed by SpecRun
Next ==
  \/ \E a \in SUBSET Flags : StartRun(a)
  \/ Exit
  \/ \E r \in {"ok", "nodata", "curl", "parse"} : FetchPage(r)
  \/ \E r \in {"url", "nourl", "error"} : Detail(r)
  \/ \E r \in {"found", "notfound", "error"} : HeadObject(r)
  \/ \E r \in StreamAnswers : Stream(r)
  \/ Delay
  \/ \E r \in {"ok", "error"} : VerifyStore(r)

Spec == Init /\ [][Next]_vars

---------------------------------------------------------------------------
(* The specification of one run, for what a run eventually does: every      *)
(* request of a run is answered and node runs the continuation of every     *)
(* settled promise and of the elapsed timer, so a run that can take a step  *)
(* takes one.                                                               *)

RunStep ==
  \/ \E r \in {"ok", "nodata", "curl", "parse"} : FetchPage(r)
  \/ \E r \in {"url", "nourl", "error"} : Detail(r)
  \/ \E r \in {"found", "notfound", "error"} : HeadObject(r)
  \/ \E r \in StreamAnswers \cup StreamResets : StreamRecorded(r)
  \/ Delay
  \/ \E r \in {"ok", "error"} : VerifyStore(r)

NextRun ==
  \/ \E a \in SUBSET Flags : StartRun(a)
  \/ RunStep

SpecRun == Init /\ [][NextRun]_vars /\ WF_vars(RunStep)

---------------------------------------------------------------------------
(* The specification of the key mapper: one record, and its key as each     *)
(* path of the code derives it.                                             *)

\* "Épisode #1!" and "vid123"
ExampleTitle == <<"É", "p", "i", "s", "o", "d", "e", " ", "#", "1", "!">>
ExampleId == <<"v", "i", "d", "1", "2", "3">>

\* the code units the titles of SpecKey are made of: a letter, a letter
\* outside ASCII, two kinds of whitespace, the dash, the dot, a special
KeyAlphabet == {"a", "É", " ", "\t", "-", ".", "#"}

RECURSIVE SeqsUpTo(_, _)
SeqsUpTo(S, n) ==
  IF n = 0 THEN {<<>>}
  ELSE LET shorter == SeqsUpTo(S, n - 1)
       IN  shorter \cup {Append(q, c) : q \in shorter, c \in S}

KeyTitles ==
  {Undefined, Null, Str(ExampleTitle)}
    \cup {Str(q) : q \in SeqsUpTo(KeyAlphabet, MaxTitleLen)}

KeyIds == {ExampleId, <<"a">>, <<"v", "_", "1">>, <<"_">>}

InitKey ==
  /\ catalog = <<>>
  /\ hasSource = {}
  /\ store = {}
  /\ ledger = NoFile
  /\ Idle
  /\ \E id \in KeyIds, t \in KeyTitles :
       km = [NoKey EXCEPT !.video = [videoId |-> id, title |-> t]]

\* the key transferVideos derives for the record
KeyTransfer ==
  /\ km.transfer = <<>>
  /\ km' = [km EXCEPT !.transfer = TransferKey(km.video)]
  /\ UNCHANGED <<envVars, runVars, histVars>>

\* the key verifyTransfer expects for the record
KeyVerify ==
  /\ km.verify = <<>>
  /\ km' = [km EXCEPT !.verify = ExpectedKey(km.video)]
  /\ UNCHANGED <<envVars, runVars, histVars>>

\* the key transferVideos of src/transfer.js derives for the record
KeyStream ==
  /\ km.stream = <<>>
  /\ km' = [km EXCEPT !.stream = StreamKey(km.video)]
  /\ UNCHANGED <<envVars, runVars, histVars>>

\* the key transferVideos derives in retry mode, for the record as main
\* rebuilds it from the ledger a failed run saved
KeyRetry ==
  /\ km.retry = <<>>
  /\ LET file == saveFailedVideos(<<FailedEntry(km.video, "upload")>>)
         video == VideosToRetry(loadFailedVideos(file).v)[1]
     IN  km' = [km EXCEPT !.retry = TransferKey(video)]
  /\ UNCHANGED <<envVars, runVars, histVars>>

NextKey == KeyTransfer \/ KeyVerify \/ KeyStream \/ KeyRetry

SpecKey == InitKey /\ [][NextKey]_vars

---------------------------------------------------------------------------
(* The specification of the listing: fetchAllVideos over catalogs of up to  *)
(* MaxListing records, which the listing does not look into.                *)

InitList ==
  /\ catalog \in {[n \in 1..len |-> n] : len \in 0..MaxListing}
  /\ hasSource = {}
  /\ store = {}
  /\ ledger = NoFile
  /\ Idle
  /\ km = NoKey

NextList ==
  \/ \E a \in {{}, {"--verify"}} : StartRun(a)
  \/ \E r \in {"ok", "nodata", "curl", "parse"} : FetchPage(r)

SpecList == InitList /\ [][NextList]_vars

---------------------------------------------------------------------------
(* The specification of the key mapper over two records of one batch.       *)

\* "x - b", "- a" and "b - a"
SeparatorTitle == <<"x", " ", "-", " ", "b">>
DashId == <<"-", " ", "a">>
SeparatorId == <<"b", " ", "-", " ", "a">>

\* the code units the titles of SpecPair are made of
PairAlphabet == {"x", " ", "-"}

PairTitles ==
  {Undefined, Str(SeparatorTitle)}
    \cup {Str(q) : q \in SeqsUpTo(PairAlphabet, MaxTitleLen)}

PairIds == {<<"a">>, <<"b">>, DashId, SeparatorId}

\* two records of a catalog, which gives every record its own identifier
InitPair ==
  /\ catalog = <<>>
  /\ hasSource = {}
  /\ store = {}
  /\ ledger = NoFile
  /\ Idle
  /\ \E id1 \in PairIds, t1 \in PairTitles, t2 \in PairTitles :
     \E id2 \in PairIds \ {id1} :
       km = [first |-> [videoId |-> id1, title |-> t1],
             second |-> [videoId |-> id2, title |-> t2],
             firstKey |-> <<>>, secondKey |-> <<>>]

\* the key transferVideos derives for the first record
KeyFirst ==
  /\ km.firstKey = <<>>
  /\ km' = [km EXCEPT !.firstKey = TransferKey(km.first)]
  /\ UNCHANGED <<envVars, runVars, histVars>>

\* the key transferVideos derives for the second record
KeySecond ==
  /\ km.secondKey = <<>>
  /\ km' = [km EXCEPT !.secondKey = TransferKey(km.second)]
  /\ UNCHANGED <<envVars, runVars, histVars>>

NextPair == KeyFirst \/ KeySecond

SpecPair == InitPair /\ [][NextPair]_vars

---------------------------------------------------------------------------
(* The key mapper's claims, under SpecKey.                                  *)

ExampleVideo == [videoId |-> ExampleId, title |-> Str(ExampleTitle)]

\* the part of a key between the prefix and the separator before the id
SafeTitleOf(key, id) ==
  SubSeq(key, Len(KeyPrefix) + 1, Len(key) - Len(KeySeparator) - Len(id))

\* the code units of s that are allowed and no whitespace, in order
Visible(s) == SelectSeq(s, LAMBDA c : c \in AllowedChars \ Whitespace)

\* s is a sanitized form of title: only allowed code units, the visible ones
\* of the title in their order, single spaces only and only between them
SanitizedFrom(s, title) ==
  /\ \A n \in 1..Len(s) : s[n] \in (AllowedChars \ Whitespace) \cup {" "}
  /\ Visible(s) = Visible(title)
  /\ s # <<>> => s[1] # " " /\ s[Len(s)] # " "
  /\ \A n \in 1..(Len(s) - 1) : ~(s[n] = " " /\ s[n + 1] = " ")

\* the keys the code has derived for the record of SpecKey
DerivedKeys == {km.transfer, km.verify} \ {<<>>}

\* C2, as the spec states it: the record with title "Épisode #1!" and id
\* vid123 gets the key api-video-backup/Episode 1 - vid123 on the transfer
\* path and on the verify path.
C2_ExampleKeyAsStated ==
  km.video = ExampleVideo =>
    \A key \in DerivedKeys :
      key = KeyPrefix \o <<"E", "p", "i", "s", "o", "d", "e", " ", "1">>
              \o KeySeparator \o ExampleId

\* C2, amended: "É" is outside [A-Za-z0-9], dash, whitespace and dot, so it
\* is stripped like "#" and "!": the record gets the key
\* api-video-backup/pisode 1 - vid123; and whenever the sanitized title is
\* not empty, the name in the key is the title with every character outside
\* the allowed set stripped, whitespace runs collapsed to one space and the
\* ends trimmed.
C2_ExampleKey ==
  \A key \in DerivedKeys :
    /\ km.video = ExampleVideo =>
         key = KeyPrefix \o <<"p", "i", "s", "o", "d", "e", " ", "1">>
                 \o KeySeparator \o ExampleId
    /\ (Truthy(km.video.title) /\ Visible(km.video.title.s) # <<>>) =>
         SanitizedFrom(SafeTitleOf(key, km.video.videoId), km.video.title.s)

C2_Witness ==
  km.video = ExampleVideo /\ km.transfer # <<>> /\ km.verify # <<>>

\* the sanitized form of a string, before the fallback
Sanitized(s) == Trim(CollapseSpaces(RemoveSpecial(s)))

\* the title of the record sanitizes to nothing: it is absent, null, empty
\* or made of whitespace and disallowed characters only
SanitizesToEmpty(video) ==
  ~Truthy(video.title) \/ Sanitized(video.title.s) = <<>>

\* C3, as the spec states it: when the sanitized title is empty the key is the
\* prefix followed by the bare identifier, with no title part and no separator.
C3_BareIdentifierAsStated ==
  (km.transfer # <<>> /\ SanitizesToEmpty(km.video)) =>
    km.transfer = KeyPrefix \o km.video.videoId

\* C3, amended: when the sanitized title is empty the identifier takes the
\* title's place and the key keeps its form <prefix><name> - <identifier>:
\* the name is the identifier itself when the title is a nonempty string that
\* sanitizes to nothing, and the sanitized identifier (the identifier itself
\* if that is empty) when the title is empty, null or absent.
C3_IdentifierAsTitle ==
  (km.transfer # <<>> /\ SanitizesToEmpty(km.video)) =>
    LET id == km.video.videoId
        name == IF Truthy(km.video.title) THEN id
                ELSE IF Sanitized(id) # <<>> THEN Sanitized(id) ELSE id
    IN  km.transfer = KeyPrefix \o name \o KeySeparator \o id

C3_Witness ==
  /\ km.transfer # <<>>
  /\ km.video.title = Str(<<"#", " ", "É">>)
  /\ km.video.videoId = <<"v", "_", "1">>

\* C10: the key of a record is the same on the transfer path, on the transfer
\* path in retry mode (the record rebuilt from its ledger entry), on the
\* transfer path of src/transfer.js and on the verify path, for every title,
\* an empty, null or absent one included.
C10_SameKeyOnEveryPath ==
  \A k1 \in {km.transfer, km.retry, km.stream} :
    (k1 # <<>> /\ km.verify # <<>>) => k1 = km.verify

C10_Witness ==
  /\ km.video.title = Undefined
  /\ km.transfer # <<>> /\ km.retry # <<>> /\ km.stream # <<>> /\ km.verify # <<>>
  /\ km.retry = km.verify

---------------------------------------------------------------------------
(* The key mapper's claim about two records, under SpecPair.                *)

\* C11, as the spec states it: two records with distinct identifiers get
\* distinct keys, whatever their titles are.
C11_DistinctIdsDistinctKeys ==
  (km.firstKey # <<>> /\ km.secondKey # <<>>
     /\ km.first.videoId # km.second.videoId)
    => km.firstKey # km.secondKey

---------------------------------------------------------------------------
(* The claims about the runs, under Spec.                                   *)

\* the events of kind e in the history of the current item
EventsOf(e) == SelectSeq(events, LAMBDA x : x.e = e)

\* the loop has just finished an item: log ends with its outcome and events
\* is its history
JustFinished == pc \in {"detail", "done"} /\ log # <<>>
LastOutcome == log[Len(log)]
LastVideo == videosToProcess[Len(log)]

\* the entries of failedVideos are the failed items of log
FailedSoFar == SelectSeq(log, LAMBDA o : o \in {"failed_detail", "failed_upload"})

\* C1: an item whose upload fails on every attempt is given exactly
\* 1 + MAX_RETRIES = 4 calls of streamToS3, with one delay of RETRY_DELAY
\* between two consecutive calls (3 delays, none after the last call), and it
\* is recorded as failed only after the last call.
C1_RetryExhaustion ==
  /\ \A n \in 1..Len(events) :
       /\ events[n].e = "wait" =>
            /\ events[n].ms = RETRY_DELAY
            /\ n > 1 /\ events[n - 1].e = "call"
       /\ (events[n].e = "call" /\ n < Len(events)) => events[n + 1].e = "wait"
  /\ Len(EventsOf("call")) <= 1 + MAX_RETRIES
  /\ Len(failedVideos) = Len(FailedSoFar)
  /\ pc = "delay" => Len(EventsOf("wait")) = Len(EventsOf("call")) - 1
  /\ pc = "stream" => Len(EventsOf("wait")) = Len(EventsOf("call"))
  /\ (JustFinished /\ LastOutcome = "failed_upload") =>
       /\ Len(EventsOf("call")) = 1 + MAX_RETRIES
       /\ Len(EventsOf("call")) = 4
       /\ Len(EventsOf("wait")) = 3
       /\ events[Len(events)].e = "call"
       /\ failedVideos[Len(failedVideos)].videoId = LastVideo.videoId

C1_Witness ==
  /\ JustFinished
  /\ LastOutcome = "failed_upload"
  /\ Len(EventsOf("call")) = 4
  /\ Len(EventsOf("wait")) = 3

\* the entries a run of loadFailedVideos would read from the ledger now
LedgerEntries == loadFailedVideos(ledger).v

\* C4, as the spec states it: the ledger never holds an entry for a record
\* whose detail fetch returns no source URL (an entry recorded because the
\* detail fetch itself failed, and returned nothing, aside), and streamToS3 is
\* never called for such a record.
C4_NoSourceNeverInLedger ==
  /\ \A n \in 1..Len(LedgerEntries) :
       LedgerEntries[n].error # "detail" =>
         LedgerEntries[n].videoId \in hasSource
  /\ pc \in {"head", "stream", "delay"} =>
       videosToProcess[i].videoId \in hasSource

\* this normal run follows a completed normal run
SecondNormalRun == mode = "normal" /\ pc # "idle" /\ prev.normal

\* the head request of the current item failed
HeadFailed == events # <<>> /\ events[1] = Ev("head", "error", 0)

\* C5, as the spec states it, for a first run that uploaded or found every
\* record of the catalog: the second normal run calls streamToS3 for no item
\* and every item ends as the already-exists skip.
C5_SecondRunAllExistAsStated ==
  (SecondNormalRun /\ prev.ok = {v.videoId : v \in Range(catalog)}) =>
    /\ pc \notin {"stream", "delay"}
    /\ \A n \in 1..Len(log) : log[n] = "exists"

\* C5, amended: in a normal run that follows a completed normal run over the
\* same catalog, an item the first run uploaded or found in the store gets no
\* call of streamToS3 and ends as the already-exists skip, unless its detail
\* fetch fails (it is failed) or answers without source URL (it is skipped
\* for that), or the head request for its key fails (its key is read as
\* absent and it is uploaded again).
C5_SecondRunSkipsExisting ==
  SecondNormalRun =>
    /\ (pc \in {"stream", "delay"} /\ videosToProcess[i].videoId \in prev.ok)
         => HeadFailed
    /\ (JustFinished /\ LastVideo.videoId \in prev.ok) =>
         \/ LastOutcome = "exists" /\ EventsOf("call") = <<>>
         \/ LastOutcome \in {"failed_detail", "nosource"} /\ EventsOf("call") = <<>>
         \/ LastOutcome \in {"success", "failed_upload"} /\ HeadFailed

C5_Witness ==
  /\ SecondNormalRun
  /\ pc = "done"
  /\ Len(log) = 2
  /\ \A n \in 1..2 : log[n] = "exists" /\ videosToProcess[n].videoId \in prev.ok

\* the positions of the catalog records whose key the store lacks
Absent == {n \in 1..Len(catalog) : TransferKey(catalog[n]) \notin store}

\* verifyTransfer has returned, having listed the whole catalog
Verified == mode = "verify" /\ pc = "done" /\ allVideos = catalog

\* C6: when the store holds the key of every catalog record but one,
\* verifyTransfer returns exactly that record and leaves a ledger of exactly
\* one entry, with its identifier and title; when no key is absent it returns
\* the empty list and the ledger does not exist afterwards.
C6_VerifyCompleteness ==
  Verified =>
    /\ \A n \in Absent :
         Absent = {n} =>
           /\ Len(missingVideos) = 1
           /\ missingVideos[1].videoId = catalog[n].videoId
           /\ missingVideos[1].title = catalog[n].title
           /\ ledger.exists
           /\ Len(LedgerEntries) = 1
           /\ LedgerEntries[1].videoId = catalog[n].videoId
           /\ LedgerEntries[1].title = catalog[n].title
    /\ Absent = {} => missingVideos = <<>> /\ ~ledger.exists

C6_Witness ==
  /\ Verified
  /\ Len(catalog) = 2
  /\ Absent = {2}
  /\ Len(missingVideos) = 1
  /\ Len(LedgerEntries) = 1
  /\ ledgerAtStart.exists

\* the failures of the run, from its history: the failed items of
\* transferVideos in their order, or the records verifyTransfer found missing
RunFailures ==
  IF mode = "verify"
  THEN [n \in 1..Len(missingVideos) |->
          [videoId |-> missingVideos[n].videoId,
           title |-> missingVideos[n].title,
           error |-> "Missing from S3 after verification"]]
  ELSE LET failedAt == {n \in 1..Len(log) :
                          log[n] \in {"failed_detail", "failed_upload"}}
           nth[k \in 0..Len(log)] ==
             IF k = 0 THEN <<>>
             ELSE IF k \in failedAt
                  THEN Append(nth[k - 1],
                         [videoId |-> videosToProcess[k].videoId,
                          title |-> videosToProcess[k].title,
                          error |-> IF log[k] = "failed_detail"
                                    THEN "detail" ELSE "upload"])
                  ELSE nth[k - 1]
       IN  nth[Len(log)]

\* the ledger holds exactly the failures of this run, stamped by this run
LedgerIsRunFailures ==
  /\ ledger.exists
  /\ ledger.text.j = "array"
  /\ Len(LedgerEntries) = Len(RunFailures)
  /\ \A n \in 1..Len(LedgerEntries) :
       /\ LedgerEntries[n].videoId = RunFailures[n].videoId
       /\ LedgerEntries[n].title = RunFailures[n].title
       /\ LedgerEntries[n].error = RunFailures[n].error
       /\ LedgerEntries[n].timestamp = runs

\* a retry run that found nothing to retry and returned at once
NothingToRetry == mode = "retry" /\ videosToProcess = <<>>

\* C8, as the spec states it: after a run that ends without a fatal abort the
\* ledger holds exactly the failures of that run if there are any, and does
\* not exist if there are none.
C8_LedgerLifecycleAsStated ==
  pc = "done" =>
    IF RunFailures = <<>> THEN ~ledger.exists ELSE LedgerIsRunFailures

\* C8, amended: the same, except that a retry run whose loaded ledger is
\* empty (no file, an unreadable file, an empty list) ends without touching
\* the ledger, so that an unreadable ledger file is still there after it.
C8_LedgerLifecycle ==
  pc = "done" =>
    IF NothingToRetry THEN ledger = ledgerAtStart
    ELSE IF RunFailures = <<>> THEN ~ledger.exists
    ELSE LedgerIsRunFailures

C8_Witness ==
  /\ pc = "done"
  /\ mode = "retry"
  /\ ledgerAtStart.exists /\ ledgerAtStart.text.j = "array"
  /\ Len(ledgerAtStart.text.items) = 2
  /\ Len(RunFailures) = 1
  /\ LedgerIsRunFailures

\* the {identifier, title} pairs of a list of entries, in order
Pairs(entries) ==
  [n \in 1..Len(entries) |-> <<entries[n].videoId, entries[n].title>>]

\* transferVideos has returned and main has saved or cleared the ledger
Persisted == pc = "done" /\ mode # "verify" /\ ~NothingToRetry

\* C9: after main has saved a nonempty failure set, loadFailedVideos returns
\* entries with the same {identifier, title} pairs in the same order; for an
\* empty failure set main leaves no ledger file behind.
C9_LedgerRoundTrip ==
  Persisted =>
    IF failedVideos # <<>>
    THEN /\ loadFailedVideos(ledger).array
         /\ Pairs(LedgerEntries) = Pairs(failedVideos)
    ELSE ~ledger.exists

C9_Witness ==
  /\ Persisted
  /\ Len(failedVideos) = 2
  /\ failedVideos[2].title = Undefined
  /\ Pairs(LedgerEntries) = Pairs(failedVideos)

\* the listing of this run failed: a page answered without a list of records,
\* or the request for a page was rejected (which aborts the run)
ListingFailed ==
  /\ mode \in {"normal", "verify"}
  /\ badPage \/ pc = "aborted"

\* C12, as the spec states it: when the listing fails on a page (transport
\* failure, unparsable response, or a response that is no page of records), a
\* normal or verify run aborts with a nonzero exit code: no item is
\* processed, no verification result is produced, and the ledger is neither
\* written nor deleted.
C12_ListingFailureAborts ==
  ListingFailed =>
    /\ pc = "aborted"
    /\ exitCode # 0
    /\ log = <<>>
    /\ missingVideos = <<>>
    /\ ledger = ledgerAtStart

\* the terminal outcomes of an item: uploaded, skipped (already in the store,
\* or without source), failed (at the detail fetch, or at the upload)
Outcomes == {"success", "exists", "nosource", "failed_detail", "failed_upload"}

\* transferVideos is running or has returned
InTransfer == pc \in {"detail", "head", "stream", "delay"} \/ (pc = "done" /\ log # <<>>)

\* every item before the current one has exactly one outcome, and
\* failedVideos holds exactly the failed ones, in input order
OneOutcomeEach ==
  InTransfer =>
    /\ Len(log) = IF pc = "done" THEN Len(videosToProcess) ELSE i - 1
    /\ \A n \in 1..Len(log) : log[n] \in Outcomes
    /\ Len(failedVideos) = Len(RunFailures)
    /\ \A n \in 1..Len(failedVideos) :
         /\ failedVideos[n].videoId = RunFailures[n].videoId
         /\ failedVideos[n].title = RunFailures[n].title
         /\ failedVideos[n].error = RunFailures[n].error

\* C13: in transferVideos, whatever per-item failures occur, every item of the
\* input is eventually processed and reaches exactly one terminal outcome
\* (success, skipped, failed), and the failure list holds exactly one entry per
\* failed item, in input order, and none for a succeeded or skipped item.
C13_EveryItemOneOutcome ==
  /\ []OneOutcomeEach
  /\ (pc = "detail") ~> (pc = "done" /\ Len(log) = Len(videosToProcess))

C13_Witness ==
  /\ pc = "done"
  /\ log = <<"failed_detail", "failed_upload">>
  /\ Len(failedVideos) = 2

\* the head request of the current item has been answered with r and nothing
\* has happened to the item since
HeadAnswered(r) == events = <<Ev("head", r, 0)>>

\* C14: checkFileExists never raises: it resolves true only when the head
\* request succeeds and false on a not-found answer and on every other error,
\* so an item is skipped as already existing only if the store reported its
\* key present, and an item whose existence check errs proceeds to upload.
C14_ExistenceCheckNeverRaises ==
  /\ HeadAnswered("found") =>
       /\ JustFinished /\ LastOutcome = "exists"
       /\ TransferKey(LastVideo) \in store
  /\ \A r \in {"notfound", "error"} :
       HeadAnswered(r) => pc = "stream" /\ retries = 0
  /\ (JustFinished /\ LastOutcome = "exists") => HeadAnswered("found")
  /\ pc \in {"stream", "delay"} =>
       events[1] \in {Ev("head", "notfound", 0), Ev("head", "error", 0)}
  /\ (JustFinished /\ LastOutcome \in {"success", "failed_upload"}) =>
       /\ events[1] \in {Ev("head", "notfound", 0), Ev("head", "error", 0)}
       /\ EventsOf("call") # <<>>

C14_Witness ==
  /\ HeadAnswered("error")
  /\ pc = "stream"
  /\ s3Key \in store

\* the loop has just finished an item whose detail fetch failed
DetailFailed == JustFinished /\ LastOutcome = "failed_detail"

\* a step of the loop at the detail fetch that does not go on to the existence
\* check ends the item: the item's outcome is logged and the loop is at the
\* next item or over, so the fetch is not made again for the item
DetailFetchedOnce ==
  (pc = "detail" /\ pc' # "head") =>
    /\ Len(log') = Len(log) + 1
    /\ videosToProcess' = videosToProcess
    /\ \/ pc' = "detail" /\ i' = i + 1
       \/ pc' = "done" /\ i = Len(videosToProcess)
    /\ Len(failedVideos') =
         Len(failedVideos) + (IF log'[Len(log')] = "failed_detail" THEN 1 ELSE 0)

\* C15: when the detail fetch of an item fails the item is failed at once: the
\* fetch is made once, no existence check and no upload is made for the item,
\* one entry {identifier, title, error, timestamp} is pushed for it, and the
\* loop goes on with the next item.
C15_DetailFailureFailsItem ==
  /\ [](DetailFailed =>
          /\ events = <<>>
          /\ failedVideos # <<>>
          /\ failedVideos[Len(failedVideos)] =
               [videoId |-> LastVideo.videoId, title |-> LastVideo.title,
                error |-> "detail", timestamp |-> runs]
          /\ Len(failedVideos) = Len(FailedSoFar)
          /\ IF Len(log) < Len(videosToProcess)
             THEN pc = "detail" /\ i = Len(log) + 1
             ELSE pc = "done")
  /\ [][DetailFetchedOnce]_vars

C15_Witness ==
  /\ DetailFailed
  /\ pc = "detail"
  /\ i = 2
  /\ Len(failedVideos) = 1
  /\ failedVideos[1].title = Str(<<"x", " ", "#">>)

\* a step that starts a run with --verify among its flags starts a verify
\* run, and no step into or within a verify run changes the store
VerifyStep ==
  /\ \A a \in SUBSET Flags :
       (StartRun(a) /\ "--verify" \in a) => mode' = "verify" /\ pc' = "list"
  /\ mode' = "verify" => store' = store

\* C17: a verify run performs no transfer: it makes no detail fetch, no
\* existence check and no upload, and leaves the keys of the store as they
\* are; this also holds when --verify is given together with --retry.
C17_VerifyTransfersNothing ==
  /\ [](mode = "verify" =>
          /\ pc \in {"list", "liststore", "done", "aborted"}
          /\ videosToProcess = <<>>
          /\ log = <<>>
          /\ events = <<>>
          /\ failedVideos = <<>>
          /\ retries = 0
          /\ inflight = 0)
  /\ [][VerifyStep]_vars

C17_Witness ==
  /\ mode = "verify"
  /\ pc = "done"
  /\ Len(missingVideos) = 2
  /\ store = {}
  /\ hasSource = {<<"a">>, <<"b">>}

\* the entries loadFailedVideos returned at the start of this run
LoadedAtStart == loadFailedVideos(ledgerAtStart).v

\* C18: a retry run never lists the catalog and processes exactly the entries
\* of the ledger read at its start, in ledger order, each entering the loop at
\* its detail fetch; when the loaded ledger is empty the run makes no transfer
\* and does not modify the ledger.
C18_RetryProcessesLedger ==
  mode = "retry" =>
    /\ requests = <<>> /\ allVideos = <<>> /\ missingVideos = <<>>
    /\ pc \in {"detail", "head", "stream", "delay", "done", "aborted"}
    /\ pc # "aborted" =>
         /\ Len(videosToProcess) = Len(LoadedAtStart)
         /\ \A n \in 1..Len(videosToProcess) :
              /\ videosToProcess[n].videoId = LoadedAtStart[n].videoId
              /\ videosToProcess[n].title = LoadedAtStart[n].title
    /\ pc \in {"detail", "head", "stream", "delay"} =>
         /\ i \in 1..Len(videosToProcess)
         /\ Len(log) = i - 1
    /\ pc \in {"head", "stream", "delay"} => s3Key = TransferKey(videosToProcess[i])
    /\ pc = "done" => Len(log) = Len(videosToProcess)
    /\ (pc # "aborted" /\ LoadedAtStart = <<>>) =>
         /\ pc = "done"
         /\ log = <<>> /\ events = <<>> /\ failedVideos = <<>>
         /\ ledger = ledgerAtStart

C18_Witness ==
  /\ mode = "retry"
  /\ pc = "done"
  /\ Len(LoadedAtStart) = 2
  /\ LoadedAtStart[1].videoId = <<"a">> /\ LoadedAtStart[2].videoId = <<"b">>
  /\ log = <<"success", "failed_upload">>

\* the ledger this run started with is missing or does not hold a list
NoListAtStart == ~ledgerAtStart.exists \/ ledgerAtStart.text.j # "array"

\* C19, as the spec states it: loadFailedVideos returns the empty list when the
\* ledger file is missing and when its content cannot be read as a list of
\* ledger entries; a retry run started on such a ledger reports nothing to
\* retry and ends normally, never with a fatal error or a nonzero exit code.
C19_CorruptLedgerIsEmpty ==
  (mode = "retry" /\ NoListAtStart) =>
    /\ loadFailedVideos(ledgerAtStart).array
    /\ loadFailedVideos(ledgerAtStart).v = <<>>
    /\ pc = "done"
    /\ exitCode = 0
    /\ videosToProcess = <<>>

\* the listed records whose key the store lacks, in the order of the listing
ListedAbsent == SelectSeq(allVideos, LAMBDA v : TransferKey(v) \notin store)

\* C20: what verifyTransfer reports missing, and the ledger it leaves, depend
\* only on the catalog as listed and on the keys of the store: whatever the
\* ledger was when the run started (absent, unreadable, no list, or a list
\* left by an earlier run), the report is the listed records whose key the
\* store lacks, and the ledger is absent if there are none and holds exactly
\* them, stamped by this run, otherwise.
C20_VerifyIgnoresLedger ==
  (mode = "verify" /\ pc = "done") =>
    /\ Len(missingVideos) = Len(ListedAbsent)
    /\ \A n \in 1..Len(missingVideos) :
         /\ missingVideos[n].videoId = ListedAbsent[n].videoId
         /\ missingVideos[n].title = ListedAbsent[n].title
    /\ IF ListedAbsent = <<>>
       THEN ledger = NoFile
       ELSE /\ ledger.exists /\ ledger.text.j = "array"
            /\ Len(LedgerEntries) = Len(ListedAbsent)
            /\ \A n \in 1..Len(LedgerEntries) :
                 /\ LedgerEntries[n].videoId = ListedAbsent[n].videoId
                 /\ LedgerEntries[n].title = ListedAbsent[n].title
                 /\ LedgerEntries[n].error = "Missing from S3 after verification"
                 /\ LedgerEntries[n].timestamp = runs

C20_Witness ==
  /\ mode = "verify"
  /\ pc = "done"
  /\ allVideos = catalog
  /\ ledgerAtStart.exists /\ ledgerAtStart.text.j = "array"
  /\ Len(ledgerAtStart.text.items) = 2
  /\ Len(missingVideos) = 1
  /\ Len(LedgerEntries) = 1

\* the identifiers of a list of ledger entries
IdsOf(entries) == {entries[n].videoId : n \in 1..Len(entries)}

\* a retry run that had entries to process has ended
RetryDone == mode = "retry" /\ pc = "done" /\ LoadedAtStart # <<>>

\* C22: after a retry run that processed a nonempty ledger, the identifiers in
\* the resulting ledger are among the identifiers of the ledger read at the
\* start of the run, and the ledger holds no more entries than it did: the
\* ledger never grows across consecutive retry runs.
C22_RetryNeverGrowsLedger ==
  RetryDone =>
    /\ loadFailedVideos(ledger).array
    /\ IdsOf(LedgerEntries) \subseteq IdsOf(LoadedAtStart)
    /\ Len(LedgerEntries) <= Len(LoadedAtStart)
    /\ LedgerEntries = <<>> => ~ledger.exists

C22_Witness ==
  /\ RetryDone
  /\ Len(LoadedAtStart) = 2
  /\ Len(LedgerEntries) = 1
  /\ LedgerEntries[1].videoId = <<"b">>

\* a verify run that listed the whole catalog has ended, after a retry run
\* that ended with no failure on the ledger the verify run before it wrote
SecondVerifyDone ==
  mode = "verify" /\ pc = "done" /\ ~badPage /\ prev.chain = 2

\* C23, as the spec states it: with the catalog unchanged and nothing but the
\* script writing to the store, a verify run that writes a ledger, then a
\* retry run that ends with no failure, then a second verify run: the second
\* verify run reports no missing record and leaves no ledger.
C23_VerifyRetryVerify ==
  SecondVerifyDone => missingVideos = <<>> /\ ~ledger.exists

---------------------------------------------------------------------------
(* The claims about what is in flight, under SpecRun.                       *)

\* C16, as the spec states it: at most one source-to-store stream is in
\* flight at any moment: when the detail fetch of an item starts, and when an
\* attempt of streamToS3 starts, every upload started before has finished or
\* has been given up by the store client, also after an attempt that was
\* rejected by an error of the source connection raised after its upload had
\* started.
C16_OneStreamInFlight ==
  pc \in {"detail", "head", "stream"} => inflight = 0

\* the source answered the last call of streamToS3 with a status outside 2xx
NonSuccessStatus(c) == c.status # 0 /\ c.status \notin 200..299

\* a call of streamToS3 the source answers with a status outside 2xx commits
\* nothing, leaves no upload behind and is followed by the delay before the
\* next attempt or, after the last attempt, by the item's failure
RejectedCallStep ==
  (pc = "stream" /\ NonSuccessStatus(call')) =>
    /\ ~call'.put
    /\ store' = store
    /\ inflight' = inflight
    /\ \/ pc' = "delay"
       \/ /\ pc' \in {"detail", "done"}
          /\ log' = Append(log, "failed_upload")

\* C21: in streamToS3 the upload is started only after the source answered
\* with a success status; when the source answers with a status outside 2xx
\* the attempt fails with an error, no put is issued and no object is
\* committed under the key by that attempt.
C21_UploadOnlyAfterSuccess ==
  /\ [](/\ call.put => call.status \in 200..299
        /\ NonSuccessStatus(call) =>
             /\ ~call.put
             /\ \/ pc = "delay"
                \/ JustFinished /\ LastOutcome = "failed_upload")
  /\ [][RejectedCallStep]_vars

C21_Witness ==
  /\ pc = "delay"
  /\ call = [status |-> 404, put |-> FALSE]
  /\ retries = 0
  /\ s3Key \notin store

---------------------------------------------------------------------------
(* The claim about the listing, under SpecList.                             *)

\* fetchAllVideos has returned, and every page answered with its records
Listed == pc \in {"detail", "liststore", "done"} /\ ~badPage

\* C7: fetchAllVideos asks for the pages 1, 2, 3, ... in order and stops after
\* the first page that holds fewer than 100 records or none; page sizes
\* [100, 100, 37] make exactly 3 requests and 237 records; for a catalog of
\* any length it has stopped after (length div 100) + 1 requests, with every
\* record returned once, in catalog order.
C7_Pagination ==
  /\ requests = [n \in 1..Len(requests) |-> n]
  /\ Len(requests) <= (Len(catalog) \div PAGE_SIZE) + 1
  /\ pc = "list" =>
       /\ ~badPage
       /\ Len(allVideos) = PAGE_SIZE * Len(requests)
       /\ allVideos = SubSeq(catalog, 1, Len(allVideos))
  /\ Listed =>
       /\ allVideos = catalog
       /\ Len(requests) = (Len(catalog) \div PAGE_SIZE) + 1
       /\ Len(catalog) = 237 => requests = <<1, 2, 3>> /\ Len(allVideos) = 237

C7_Witness ==
  /\ Listed
  /\ Len(catalog) = 237
  /\ requests = <<1, 2, 3>>
  /\ Len(allVideos) = 237

===========================================================================
